---- MODULE Spec2Model ----
(***************************************************************************)
(* A model of redis-clone: the storage engine (db.go: Database), the       *)
(* registry and the per-connection selection (db.go: databases,            *)
(* SelectedDatabases) and the command handlers (main.go).                  *)
(*                                                                         *)
(* Strings are sequences of one-character strings, so that parsing         *)
(* (strconv.Atoi) and formatting (fmt.Sprint) are computed digit by digit. *)
(* A *Database pointer is the index of the engine it points to, or nil.    *)
(* A panic in any goroutine ends the Go process: crashed.                  *)
(***************************************************************************)
EXTENDS Integers, Sequences, FiniteSets, Bags, TLC

VARIABLES
    databases,   \* db.go: databases, index string -> Database{container, keys, keyIndex}
    selectedDB,  \* db.go: selectedDB.v, connection -> *Database
    pc,          \* per connection: where its handleConnection goroutine stands
    local,       \* per connection: the locals of the handler in progress
    reply,       \* per connection: what the last command read has written to the connection so far
    tasks,       \* the goroutines started by Move that have not run yet (a bag)
    crashed,     \* a goroutine has panicked: the process is gone
    budget,      \* per connection: how many more commands the client sends
    before,      \* history: the engines' contents when the run started
    overlap      \* history: per connection, its MOVE ran while another MOVE of the same key and destination was in progress

vars == <<databases, selectedDB, pc, local, reply, tasks, crashed, budget, before, overlap>>

---------------------------------------------------------------------------
(* Bounds of the model *)

\* initDB(DBNum) creates the engines "0".."DBNum" (the -db-num flag, 16 by default)
DBNum == 1
\* cap on len(db.keys), which Write grows on every call
MaxKeys == 2
\* cap on the absolute value of the integers INCR/DECR produce
MaxInt == 2
\* cap on the goroutines of Move that are pending at one time
MaxTasks == 4
\* commands each client sends in the scenarios that start from a prepared state
MaxCmds == 1
\* cap on len(db.keys) where the engine is called directly
MaxOrder == 3

---------------------------------------------------------------------------
(* Strings *)

Digits == {"0", "1", "2", "3", "4", "5", "6", "7", "8", "9"}

DigitVal(ch) ==
    CASE ch = "0" -> 0 [] ch = "1" -> 1 [] ch = "2" -> 2 [] ch = "3" -> 3
      [] ch = "4" -> 4 [] ch = "5" -> 5 [] ch = "6" -> 6 [] ch = "7" -> 7
      [] ch = "8" -> 8 [] ch = "9" -> 9

DigitChar(n) ==
    CASE n = 0 -> "0" [] n = 1 -> "1" [] n = 2 -> "2" [] n = 3 -> "3"
      [] n = 4 -> "4" [] n = 5 -> "5" [] n = 6 -> "6" [] n = 7 -> "7"
      [] n = 8 -> "8" [] n = 9 -> "9"

RECURSIVE ParseDigits(_, _)
\* the value of the digit string s read after the digits worth acc
ParseDigits(s, acc) ==
    IF s = <<>> THEN acc ELSE ParseDigits(Tail(s), 10 * acc + DigitVal(Head(s)))

\* strconv.Atoi: an optional sign, then one or more decimal digits
Atoi(s) ==
    LET signed == s # <<>> /\ Head(s) \in {"+", "-"}
        body   == IF signed THEN Tail(s) ELSE s
        ok     == body # <<>> /\ \A i \in 1..Len(body) : body[i] \in Digits
        mag    == IF ok THEN ParseDigits(body, 0) ELSE 0
    IN  [n  |-> IF signed /\ Head(s) = "-" THEN 0 - mag ELSE mag,
         ok |-> ok]

RECURSIVE NatDigits(_)
NatDigits(n) ==
    IF n < 10 THEN <<DigitChar(n)>> ELSE Append(NatDigits(n \div 10), DigitChar(n % 10))

\* fmt.Sprint of an int
Sprint(n) == IF n < 0 THEN <<"-">> \o NatDigits(0 - n) ELSE NatDigits(n)

UpperLetters == <<"A", "B", "C", "D", "E", "F", "G", "H", "I", "J", "K", "L", "M",
                  "N", "O", "P", "Q", "R", "S", "T", "U", "V", "W", "X", "Y", "Z">>
LowerLetters == <<"a", "b", "c", "d", "e", "f", "g", "h", "i", "j", "k", "l", "m",
                  "n", "o", "p", "q", "r", "s", "t", "u", "v", "w", "x", "y", "z">>

ToLowerChar(ch) ==
    IF \E i \in 1..Len(UpperLetters) : UpperLetters[i] = ch
    THEN LowerLetters[CHOOSE i \in 1..Len(UpperLetters) : UpperLetters[i] = ch]
    ELSE ch

\* strings.ToLower
ToLower(s) == [i \in 1..Len(s) |-> ToLowerChar(s[i])]

---------------------------------------------------------------------------
(* The storage engine: db.go, Database *)

Restrict(f, S) == [x \in S |-> f[x]]

NewDatabase == [container |-> <<>>, keys |-> <<>>, keyIndex |-> <<>>]

\* Database.Read
DatabaseRead(db, key) ==
    IF key \in DOMAIN db.container
    THEN [v |-> db.container[key], ok |-> TRUE]
    ELSE [v |-> <<>>, ok |-> FALSE]

\* Write as it would be if it kept the value of a key the engine holds
DatabaseWriteKeepsOld(db, key, value) ==
    LET keys == Append(db.keys, key)
    IN  [container |-> db.container @@ (key :> value),
         keys      |-> keys,
         keyIndex  |-> (key :> (Len(keys) - 1)) @@ db.keyIndex]

\* Database.Write
DatabaseWrite(db, key, value) ==
    LET keys == Append(db.keys, key)
    IN  [container |-> (key :> value) @@ db.container,
         keys      |-> keys,
         keyIndex  |-> (key :> (Len(keys) - 1)) @@ db.keyIndex]

\* Database.Delete
DatabaseDelete(db, key) ==
    IF key \notin DOMAIN db.keyIndex THEN db
    ELSE
      LET index        == db.keyIndex[key]
          keyIndex1    == Restrict(db.keyIndex, DOMAIN db.keyIndex \ {key})
          lastIndex    == Len(db.keys) - 1
          wasLastIndex == index = lastIndex
          keys1        == IF ~wasLastIndex
                          THEN [db.keys EXCEPT ![index + 1] = db.keys[lastIndex + 1]]
                          ELSE db.keys
          keyIndex2    == IF ~wasLastIndex
                          THEN (keys1[index + 1] :> index) @@ keyIndex1
                          ELSE keyIndex1
      IN  [container |-> Restrict(db.container, DOMAIN db.container \ {key}),
           keys      |-> SubSeq(keys1, 1, lastIndex),
           keyIndex  |-> keyIndex2]

\* Database.RandomKey: the keys rand.Intn(len(db.keys)) can pick; it panics on 0
RandomKeyPanics(db) == Len(db.keys) = 0
DatabaseRandomKey(db) == {db.keys[i] : i \in 1..Len(db.keys)}

\* Database.Flush
DatabaseFlush(db) == NewDatabase

\* SelectedDatabases.Size, on the engine GetDB returned
DatabaseSize(db) == Cardinality(DOMAIN db.container)

---------------------------------------------------------------------------
(* The registry and the selection of each connection: db.go *)

\* initDB(n): one empty engine under each of fmt.Sprint(n), ..., fmt.Sprint(0)
initDB(n) == [idx \in {Sprint(i) : i \in 0..n} |-> NewDatabase]

NilPtr == [nil |-> TRUE, idx |-> <<>>]
Ptr(idx) == [nil |-> FALSE, idx |-> idx]

\* databases[idx]: a Go map gives the nil pointer for an index it does not hold
Lookup(dbs, idx) == IF idx \in DOMAIN dbs THEN Ptr(idx) ELSE NilPtr

\* the connections accepted on a unix socket: their clients did not bind a name
UnixConns == {"u1", "u2"}

\* conn.RemoteAddr().String(), the key of the session table: a TCP connection
\* has the ip:port of its client, which no other live connection has; a
\* connection accepted on a unix socket has the address of an unnamed socket
RemoteAddr(c) == IF c \in UnixConns THEN "@" ELSE c

\* SelectedDatabases.GetDB: d is the pointer returned, v the table afterwards
GetDB(dbs, sel, c) ==
    IF RemoteAddr(c) \in DOMAIN sel
    THEN [d |-> sel[RemoteAddr(c)], v |-> sel]
    ELSE [d |-> Lookup(dbs, <<"0">>), v |-> (RemoteAddr(c) :> Lookup(dbs, <<"0">>)) @@ sel]

---------------------------------------------------------------------------
(* Replies: resp.go. A command's output is the sequence of replies written. *)

Reply(kind, n, s, msg) == [kind |-> kind, n |-> n, s |-> s, msg |-> msg]
\* intRESP
IntReply(n) == Reply("int", n, <<>>, <<"", "">>)
\* simpleStringRESP
SimpleReply(s) == Reply("simple", 0, s, <<"", "">>)
\* okRESP
OkReply == Reply("simple", 0, <<"O", "K">>, <<"", "">>)
\* bulkStringRESP
BulkReply(s) == Reply("bulk", 0, s, <<"", "">>)
\* nullBulkRESP
NullBulkReply == Reply("nullbulk", 0, <<>>, <<"", "">>)
\* errRESP
ErrReply(msg) == Reply("error", 0, <<>>, <<msg, "">>)
\* wrongNumArgsRESP
WrongNumArgsReply(name) == Reply("error", 0, <<>>, <<"ERR wrong number of arguments", name>>)
\* valueIsNotIntRESP
ValueIsNotIntReply == ErrReply("ERR value is not an integer or out of range")
RangeErrReply == ErrReply("ERR DB index is out of range")

---------------------------------------------------------------------------
(* Handlers that run in one step. Each gives the state it leaves:          *)
(* dbs, sel, the replies it wrote (out), whether it returned               *)
(* wrongNumArgsError (err) and whether it panicked.                        *)

Returns(dbs, sel, out) == [dbs |-> dbs, sel |-> sel, out |-> out, err |-> FALSE, panic |-> FALSE]
ReturnsWrongNumArgs(dbs, sel, out) == [dbs |-> dbs, sel |-> sel, out |-> out, err |-> TRUE, panic |-> FALSE]
Panics(dbs, sel) == [dbs |-> dbs, sel |-> sel, out |-> <<>>, err |-> FALSE, panic |-> TRUE]

\* Set as it would be if it wrote to engine "0" whatever the connection selected
SetHandlerDefaultDB(dbs, sel, c, args) ==
    IF Len(args) # 2 THEN ReturnsWrongNumArgs(dbs, sel, <<>>)
    ELSE LET g == GetDB(dbs, sel, c)
         IN  IF g.d.nil THEN Panics(dbs, g.v)
             ELSE Returns([dbs EXCEPT ![<<"0">>] = DatabaseWrite(@, args[1], args[2])],
                          g.v, <<OkReply>>)

\* main.go: Set
SetHandler(dbs, sel, c, args) ==
    IF Len(args) # 2 THEN ReturnsWrongNumArgs(dbs, sel, <<>>)
    ELSE LET g == GetDB(dbs, sel, c)
         IN  IF g.d.nil THEN Panics(dbs, g.v)
             ELSE Returns([dbs EXCEPT ![g.d.idx] = DatabaseWrite(@, args[1], args[2])],
                          g.v, <<OkReply>>)

\* main.go: Get
GetHandler(dbs, sel, c, args) ==
    IF Len(args) # 1 THEN ReturnsWrongNumArgs(dbs, sel, <<>>)
    ELSE LET g == GetDB(dbs, sel, c)
         IN  IF g.d.nil THEN Panics(dbs, g.v)
             ELSE LET r == DatabaseRead(dbs[g.d.idx], args[1])
                  IN  Returns(dbs, g.v, <<IF r.ok THEN BulkReply(r.v) ELSE NullBulkReply>>)

\* main.go: Exists
ExistsHandler(dbs, sel, c, args) ==
    IF Len(args) = 0 THEN ReturnsWrongNumArgs(dbs, sel, <<>>)
    ELSE LET g == GetDB(dbs, sel, c)
         IN  IF g.d.nil THEN Panics(dbs, g.v)
             ELSE LET count == Cardinality({i \in 1..Len(args) :
                                   DatabaseRead(dbs[g.d.idx], args[i]).v # <<>>})
                  IN  Returns(dbs, g.v, <<IntReply(count)>>)

RECURSIVE DelLoop(_, _, _)
\* the loop of Del over args on engine db, count keys deleted so far
DelLoop(db, args, count) ==
    IF args = <<>> THEN [db |-> db, count |-> count]
    ELSE IF DatabaseRead(db, Head(args)).v # <<>>
         THEN DelLoop(DatabaseDelete(db, Head(args)), Tail(args), count + 1)
         ELSE DelLoop(db, Tail(args), count)

\* main.go: Del
DelHandler(dbs, sel, c, args) ==
    IF Len(args) = 0 THEN ReturnsWrongNumArgs(dbs, sel, <<>>)
    ELSE LET g == GetDB(dbs, sel, c)
         IN  IF g.d.nil THEN Panics(dbs, g.v)
             ELSE LET r == DelLoop(dbs[g.d.idx], args, 0)
                  IN  Returns([dbs EXCEPT ![g.d.idx] = r.db], g.v, <<IntReply(r.count)>>)

\* main.go: Select
SelectHandler(dbs, sel, c, args) ==
    IF Len(args) # 1 THEN ReturnsWrongNumArgs(dbs, sel, <<>>)
    ELSE Returns(dbs, (RemoteAddr(c) :> Lookup(dbs, args[1])) @@ sel, <<OkReply>>)

\* FlushDB as it would be if it flushed every engine of the registry
FlushDBHandlerAll(dbs, sel, c, args) ==
    IF Len(args) # 0 THEN ReturnsWrongNumArgs(dbs, sel, <<>>)
    ELSE LET g == GetDB(dbs, sel, c)
         IN  IF g.d.nil THEN Panics(dbs, g.v)
             ELSE Returns([idx \in DOMAIN dbs |-> DatabaseFlush(dbs[idx])], g.v, <<OkReply>>)

\* main.go: FlushDB
FlushDBHandler(dbs, sel, c, args) ==
    IF Len(args) # 0 THEN ReturnsWrongNumArgs(dbs, sel, <<>>)
    ELSE LET g == GetDB(dbs, sel, c)
         IN  IF g.d.nil THEN Panics(dbs, g.v)
             ELSE Returns([dbs EXCEPT ![g.d.idx] = DatabaseFlush(@)], g.v, <<OkReply>>)

\* FlushAll as it would be if it flushed the engine of the connection only
FlushAllHandlerSelectedOnly(dbs, sel, c, args) ==
    IF Len(args) # 0 THEN ReturnsWrongNumArgs(dbs, sel, <<>>)
    ELSE LET g == GetDB(dbs, sel, c)
         IN  IF g.d.nil THEN Panics(dbs, g.v)
             ELSE Returns([dbs EXCEPT ![g.d.idx] = DatabaseFlush(@)], g.v, <<OkReply>>)

\* main.go: FlushAll
FlushAllHandler(dbs, sel, c, args) ==
    IF Len(args) # 0 THEN ReturnsWrongNumArgs(dbs, sel, <<>>)
    ELSE Returns([idx \in DOMAIN dbs |-> DatabaseFlush(dbs[idx])], sel, <<OkReply>>)

\* main.go: DBSize. On a wrong number of arguments it writes the error itself
\* and returns wrongNumArgsError as well
DBSizeHandler(dbs, sel, c, args) ==
    IF Len(args) # 0 THEN ReturnsWrongNumArgs(dbs, sel, <<WrongNumArgsReply("dbsize")>>)
    ELSE LET g == GetDB(dbs, sel, c)
         IN  IF g.d.nil THEN Panics(dbs, g.v)
             ELSE Returns(dbs, g.v, <<IntReply(DatabaseSize(dbs[g.d.idx]))>>)

\* main.go: Ping
PingHandler(dbs, sel, c, args) ==
    IF Len(args) = 0 THEN Returns(dbs, sel, <<SimpleReply(<<"P", "O", "N", "G">>)>>)
    ELSE IF Len(args) = 1 THEN Returns(dbs, sel, <<BulkReply(args[1])>>)
    ELSE ReturnsWrongNumArgs(dbs, sel, <<>>)

\* main.go: Echo
EchoHandler(dbs, sel, c, args) ==
    IF Len(args) # 1 THEN ReturnsWrongNumArgs(dbs, sel, <<>>)
    ELSE Returns(dbs, sel, <<BulkReply(args[1])>>)

\* main.go: RandomKey, when rand.Intn picks key
RandomKeyHandler(dbs, sel, c, args, key) ==
    IF Len(args) # 0 THEN ReturnsWrongNumArgs(dbs, sel, <<>>)
    ELSE LET g == GetDB(dbs, sel, c)
         IN  IF g.d.nil \/ RandomKeyPanics(dbs[g.d.idx]) THEN Panics(dbs, g.v)
             ELSE Returns(dbs, g.v, <<BulkReply(key)>>)

\* main.go: handleCommand, after the handler returned r
handleCommand(name, r) ==
    IF r.err THEN [r EXCEPT !.out = Append(@, WrongNumArgsReply(name))] ELSE r

---------------------------------------------------------------------------
(* The connections: handleConnection reads a line, handles it, reads the next *)

Conns == DOMAIN pc

\* the handler's arguments, closure variables and locals that later steps read
NoLocal == [name |-> "", key |-> <<>>, dbIdx |-> <<>>, value |-> <<>>,
            dir |-> "", by |-> FALSE, arg |-> <<>>, absent |-> FALSE, val |-> 0, v |-> 0]

\* the client of c sends one more line and handleConnection reads it
Begin(c) ==
    /\ ~crashed
    /\ pc[c] = "read"
    /\ budget[c] # 0
    /\ budget' = [budget EXCEPT ![c] = IF @ > 0 THEN @ - 1 ELSE @]

\* handleCommand has run a one-step handler, which left r
Handled(c, name, r) ==
    LET h == handleCommand(name, r)
    IN  /\ \A idx \in DOMAIN h.dbs : Len(h.dbs[idx].keys) <= MaxKeys
        /\ databases' = h.dbs
        /\ selectedDB' = h.sel
        /\ reply' = [reply EXCEPT ![c] = h.out]
        /\ crashed' = h.panic
        /\ overlap' = [overlap EXCEPT ![c] = FALSE]
        /\ local' = [local EXCEPT ![c] = [NoLocal EXCEPT !.name = name]]
        /\ UNCHANGED <<pc, tasks, before>>

Set(c, args) ==
    /\ Begin(c)
    /\ Handled(c, "set", SetHandler(databases, selectedDB, c, args))

Get(c, args) ==
    /\ Begin(c)
    /\ Handled(c, "get", GetHandler(databases, selectedDB, c, args))

Exists(c, args) ==
    /\ Begin(c)
    /\ Handled(c, "exists", ExistsHandler(databases, selectedDB, c, args))

Del(c, args) ==
    /\ Begin(c)
    /\ Handled(c, "del", DelHandler(databases, selectedDB, c, args))

Select(c, args) ==
    /\ Begin(c)
    /\ Handled(c, "select", SelectHandler(databases, selectedDB, c, args))

FlushDB(c, args) ==
    /\ Begin(c)
    /\ Handled(c, "flushdb", FlushDBHandler(databases, selectedDB, c, args))

FlushAll(c, args) ==
    /\ Begin(c)
    /\ Handled(c, "flushall", FlushAllHandler(databases, selectedDB, c, args))

DBSize(c, args) ==
    /\ Begin(c)
    /\ Handled(c, "dbsize", DBSizeHandler(databases, selectedDB, c, args))

Ping(c, args) ==
    /\ Begin(c)
    /\ Handled(c, "ping", PingHandler(databases, selectedDB, c, args))

Echo(c, args) ==
    /\ Begin(c)
    /\ Handled(c, "echo", EchoHandler(databases, selectedDB, c, args))

\* the keys Database.RandomKey can return on the engine c has selected
RandomKeyChoices(c) ==
    LET g == GetDB(databases, selectedDB, c)
    IN  IF g.d.nil \/ RandomKeyPanics(databases[g.d.idx]) THEN {<<>>}
        ELSE DatabaseRandomKey(databases[g.d.idx])

RandomKey(c, args) ==
    /\ Begin(c)
    /\ \E key \in RandomKeyChoices(c) :
          Handled(c, "randomkey", RandomKeyHandler(databases, selectedDB, c, args, key))

\* main.go: Quit
QuitHandler(dbs, sel, c, args) ==
    Returns(dbs, Restrict(sel, DOMAIN sel \ {RemoteAddr(c)}), <<OkReply>>)

\* Quit ends with conn.Close(): the next ReadString of handleConnection fails
Quit(c, args) ==
    /\ Begin(c)
    /\ LET h == handleCommand("quit", QuitHandler(databases, selectedDB, c, args))
       IN  /\ selectedDB' = h.sel
           /\ reply' = [reply EXCEPT ![c] = h.out]
    /\ pc' = [pc EXCEPT ![c] = "closed"]
    /\ local' = [local EXCEPT ![c] = [NoLocal EXCEPT !.name = "quit"]]
    /\ overlap' = [overlap EXCEPT ![c] = FALSE]
    /\ UNCHANGED <<databases, tasks, crashed, before>>

\* handleCommand when commandMap has no handler for the command: it returns
NoHandler(c) ==
    /\ Begin(c)
    /\ Handled(c, "", Returns(databases, selectedDB, <<>>))

\* handleConnection returns: ReadString failed, because the client went away
\* or because Quit closed the connection
Disconnect(c) ==
    /\ ~crashed
    /\ pc[c] \in {"read", "closed"}
    /\ pc' = [pc EXCEPT ![c] = "exited"]
    /\ UNCHANGED <<databases, selectedDB, local, reply, tasks, crashed, budget, before, overlap>>

---------------------------------------------------------------------------
(* The session table under its lock: selectedDB.mu is a sync.RWMutex. GetDB *)
(* takes it with RLock, Select and Quit with Lock. Who holds the mutex is    *)
(* read off pc: a connection between RLock and RUnlock, or between Lock and  *)
(* Unlock, stands at a pc of its own.                                        *)

\* c has returned from selectedDB.mu.RLock() and not yet from RUnlock()
RLockHeld(c) == pc[c] \in {"getdb_rlocked", "getdb_bind"}
\* c has returned from selectedDB.mu.Lock() and not yet called Unlock()
LockHeld(c) == pc[c] \in {"select_locked", "quit_locked"}
\* c has called selectedDB.mu.Lock(), which has not returned yet
LockPending(c) == pc[c] \in {"select_lock", "quit_lock"}

\* Get calls selectedDB.Read, which calls GetDB: db.mu.RLock() (line 92).
\* sync.RWMutex: RLock returns unless a writer holds the mutex or waits for it
GetDBRLock(c, args) ==
    /\ Begin(c)
    /\ Len(args) = 1
    /\ \A o \in Conns \ {c} : ~LockHeld(o) /\ ~LockPending(o)
    /\ pc' = [pc EXCEPT ![c] = "getdb_rlocked"]
    /\ local' = [local EXCEPT ![c] = [NoLocal EXCEPT !.name = "get", !.key = args[1]]]
    /\ reply' = [reply EXCEPT ![c] = <<>>]
    /\ overlap' = [overlap EXCEPT ![c] = FALSE]
    /\ UNCHANGED <<databases, selectedDB, tasks, crashed, before>>

\* the rest of Get once GetDB has returned the pointer d: d.Read and the reply
GetReturn(c, d) ==
    IF d.nil
    THEN /\ crashed' = TRUE
         /\ UNCHANGED reply
    ELSE LET r == DatabaseRead(databases[d.idx], local[c].key)
         IN  /\ reply' = [reply EXCEPT ![c] = <<IF r.ok THEN BulkReply(r.v) ELSE NullBulkReply>>]
             /\ UNCHANGED crashed

\* GetDB, line 95: the read of the table; if the connection has an entry,
\* GetDB returns it (RUnlock) and Get goes on
GetDBLookup(c) ==
    /\ ~crashed
    /\ pc[c] = "getdb_rlocked"
    /\ IF RemoteAddr(c) \in DOMAIN selectedDB
       THEN /\ pc' = [pc EXCEPT ![c] = "read"]
            /\ GetReturn(c, selectedDB[RemoteAddr(c)])
       ELSE /\ pc' = [pc EXCEPT ![c] = "getdb_bind"]
            /\ UNCHANGED <<reply, crashed>>
    /\ UNCHANGED <<databases, selectedDB, local, tasks, budget, before, overlap>>

\* GetDB, line 99: the write of the table, with the mutex held for reading
\* only; GetDB then returns databases["0"] (RUnlock) and Get goes on. While
\* another connection is inside GetDB the write is a data race on the Go
\* map: it takes effect, or it is lost, or the runtime stops the process
\* (fatal error: concurrent map writes / concurrent map read and map write).
GetDBBind(c) ==
    /\ ~crashed
    /\ pc[c] = "getdb_bind"
    /\ LET racing == \E o \in Conns \ {c} : RLockHeld(o)
           bound  == (RemoteAddr(c) :> Lookup(databases, <<"0">>)) @@ selectedDB
       IN  \/ /\ selectedDB' = bound
              /\ pc' = [pc EXCEPT ![c] = "read"]
              /\ GetReturn(c, Lookup(databases, <<"0">>))
           \/ /\ racing
              /\ selectedDB' = selectedDB
              /\ pc' = [pc EXCEPT ![c] = "read"]
              /\ GetReturn(c, Lookup(databases, <<"0">>))
           \/ /\ racing
              /\ crashed' = TRUE
              /\ UNCHANGED <<selectedDB, pc, reply>>
    /\ UNCHANGED <<databases, local, tasks, budget, before, overlap>>

\* Select with one argument: selectedDB.mu.Lock() is called (line 390)
SelectLock(c, args) ==
    /\ Begin(c)
    /\ Len(args) = 1
    /\ pc' = [pc EXCEPT ![c] = "select_lock"]
    /\ local' = [local EXCEPT ![c] = [NoLocal EXCEPT !.name = "select", !.dbIdx = args[1]]]
    /\ reply' = [reply EXCEPT ![c] = <<>>]
    /\ overlap' = [overlap EXCEPT ![c] = FALSE]
    /\ UNCHANGED <<databases, selectedDB, tasks, crashed, before>>

\* Quit: selectedDB.mu.Lock() is called (line 562)
QuitLock(c) ==
    /\ Begin(c)
    /\ pc' = [pc EXCEPT ![c] = "quit_lock"]
    /\ local' = [local EXCEPT ![c] = [NoLocal EXCEPT !.name = "quit"]]
    /\ reply' = [reply EXCEPT ![c] = <<>>]
    /\ overlap' = [overlap EXCEPT ![c] = FALSE]
    /\ UNCHANGED <<databases, selectedDB, tasks, crashed, before>>

\* selectedDB.mu.Lock() returns, in Select or in Quit. sync.RWMutex: Lock
\* returns once no reader and no other writer holds the mutex
LockAcquire(c) ==
    /\ ~crashed
    /\ LockPending(c)
    /\ \A o \in Conns \ {c} : ~LockHeld(o) /\ ~RLockHeld(o)
    /\ pc' = [pc EXCEPT ![c] = IF pc[c] = "select_lock" THEN "select_locked" ELSE "quit_locked"]
    /\ UNCHANGED <<databases, selectedDB, local, reply, tasks, crashed, budget, before, overlap>>

\* Select, lines 391-393: the write of the table, Unlock and the reply
SelectStore(c) ==
    /\ ~crashed
    /\ pc[c] = "select_locked"
    /\ selectedDB' = (RemoteAddr(c) :> Lookup(databases, local[c].dbIdx)) @@ selectedDB
    /\ reply' = [reply EXCEPT ![c] = <<OkReply>>]
    /\ pc' = [pc EXCEPT ![c] = "read"]
    /\ UNCHANGED <<databases, local, tasks, crashed, budget, before, overlap>>

\* Quit, lines 563-566: the delete from the table, Unlock, the reply, Close
QuitDelete(c) ==
    /\ ~crashed
    /\ pc[c] = "quit_locked"
    /\ selectedDB' = Restrict(selectedDB, DOMAIN selectedDB \ {RemoteAddr(c)})
    /\ reply' = [reply EXCEPT ![c] = <<OkReply>>]
    /\ pc' = [pc EXCEPT ![c] = "closed"]
    /\ UNCHANGED <<databases, local, tasks, crashed, budget, before, overlap>>

---------------------------------------------------------------------------
(* Move: main.go. It reads the source engine, then the destination engine,  *)
(* then starts two goroutines, newDB.Write and selectedDB.Delete, and       *)
(* replies 1 without waiting for them.                                      *)

Task(op, db, c, key, value) == [op |-> op, db |-> db, conn |-> c, key |-> key, value |-> value]

InMove(c) == pc[c] = "move_dst"

\* Move from its start to the read of the source engine (lines 403-413)
Move(c, args) ==
    /\ Begin(c)
    /\ BagCardinality(tasks) + 2 * (1 + Cardinality({c2 \in Conns : InMove(c2)})) <= MaxTasks
    /\ IF Len(args) # 2
       THEN /\ reply' = [reply EXCEPT ![c] = <<WrongNumArgsReply("move")>>]
            /\ local' = [local EXCEPT ![c] = NoLocal]
            /\ overlap' = [overlap EXCEPT ![c] = FALSE]
            /\ UNCHANGED <<selectedDB, pc, crashed>>
       ELSE LET g == GetDB(databases, selectedDB, c)
                r == DatabaseRead(databases[g.d.idx], args[1])
                l == [NoLocal EXCEPT !.name = "move", !.key = args[1], !.dbIdx = args[2]]
                others == {c2 \in Conns \ {c} : /\ InMove(c2)
                                                 /\ local[c2].key = args[1]
                                                 /\ local[c2].dbIdx = args[2]}
            IN  /\ selectedDB' = g.v
                /\ IF g.d.nil
                   THEN /\ crashed' = TRUE
                        /\ reply' = [reply EXCEPT ![c] = <<>>]
                        /\ local' = [local EXCEPT ![c] = l]
                        /\ overlap' = [overlap EXCEPT ![c] = FALSE]
                        /\ UNCHANGED pc
                   ELSE IF ~r.ok
                   THEN /\ reply' = [reply EXCEPT ![c] = <<IntReply(0)>>]
                        /\ local' = [local EXCEPT ![c] = l]
                        /\ overlap' = [overlap EXCEPT ![c] = FALSE]
                        /\ UNCHANGED <<pc, crashed>>
                   ELSE /\ reply' = [reply EXCEPT ![c] = <<>>]
                        /\ pc' = [pc EXCEPT ![c] = "move_dst"]
                        /\ local' = [local EXCEPT ![c] = [l EXCEPT !.value = r.v]]
                        /\ overlap' = [c2 \in Conns |->
                                        IF c2 = c THEN others # {}
                                        ELSE overlap[c2] \/ c2 \in others]
                        /\ UNCHANGED crashed
    /\ UNCHANGED <<databases, tasks, before>>

\* Move as it would be if the test of the destination replied 0 and went on
\* to start newDB.Write instead of returning
MoveDstHandlerEager(dbs, c, l) ==
    IF Lookup(dbs, l.dbIdx).nil
    THEN [out |-> <<RangeErrReply>>, go |-> EmptyBag]
    ELSE IF DatabaseRead(dbs[l.dbIdx], l.key).ok
    THEN [out |-> <<IntReply(0)>>,
          go  |-> SetToBag({Task("write", l.dbIdx, c, l.key, l.value)})]
    ELSE [out |-> <<IntReply(1)>>,
          go  |-> SetToBag({Task("write", l.dbIdx, c, l.key, l.value)})
                  (+) SetToBag({Task("delete", <<>>, c, l.key, <<>>)})]

\* Move as it would be if it started newDB.Write only and never the delete
MoveDstHandlerWriteOnly(dbs, c, l) ==
    IF Lookup(dbs, l.dbIdx).nil
    THEN [out |-> <<RangeErrReply>>, go |-> EmptyBag]
    ELSE IF DatabaseRead(dbs[l.dbIdx], l.key).ok
    THEN [out |-> <<IntReply(0)>>, go |-> EmptyBag]
    ELSE [out |-> <<IntReply(1)>>,
          go  |-> SetToBag({Task("write", l.dbIdx, c, l.key, l.value)})]

\* Move from the lookup of the destination to its return (lines 414-427):
\* the replies written (out) and the goroutines started (go)
MoveDstHandler(dbs, c, l) ==
    IF Lookup(dbs, l.dbIdx).nil
    THEN [out |-> <<RangeErrReply>>, go |-> EmptyBag]
    ELSE IF DatabaseRead(dbs[l.dbIdx], l.key).ok
    THEN [out |-> <<IntReply(0)>>, go |-> EmptyBag]
    ELSE [out |-> <<IntReply(1)>>,
          go  |-> SetToBag({Task("write", l.dbIdx, c, l.key, l.value)})
                  (+) SetToBag({Task("delete", <<>>, c, l.key, <<>>)})]

MoveDst(c) ==
    /\ ~crashed
    /\ pc[c] = "move_dst"
    /\ LET h == MoveDstHandler(databases, c, local[c])
       IN  /\ reply' = [reply EXCEPT ![c] = @ \o h.out]
           /\ tasks' = tasks (+) h.go
    /\ pc' = [pc EXCEPT ![c] = "read"]
    /\ UNCHANGED <<databases, selectedDB, local, crashed, budget, before, overlap>>

\* the goroutine go newDB.Write(key, value)
MoveWrite ==
    \E t \in BagToSet(tasks) :
        /\ ~crashed
        /\ t.op = "write"
        /\ Len(databases[t.db].keys) < MaxKeys
        /\ databases' = [databases EXCEPT ![t.db] = DatabaseWrite(@, t.key, t.value)]
        /\ tasks' = tasks (-) SetToBag({t})
        /\ UNCHANGED <<selectedDB, pc, local, reply, crashed, budget, before, overlap>>

\* the goroutine go selectedDB.Delete(conn, key): GetDB runs when the goroutine does
MoveDelete ==
    \E t \in BagToSet(tasks) :
        /\ ~crashed
        /\ t.op = "delete"
        /\ LET g == GetDB(databases, selectedDB, t.conn)
           IN  /\ selectedDB' = g.v
               /\ crashed' = g.d.nil
               /\ databases' = IF g.d.nil THEN databases
                               ELSE [databases EXCEPT ![g.d.idx] = DatabaseDelete(@, t.key)]
        /\ tasks' = tasks (-) SetToBag({t})
        /\ UNCHANGED <<pc, local, reply, budget, before, overlap>>

---------------------------------------------------------------------------
(* INCR, DECR, INCRBY, DECRBY: main.go, IncrDecrGenerator(dir, by).         *)
(* The handler reads the key with ReadInt and later writes it with Write:  *)
(* two calls, each under the engine's lock, with nothing held in between.  *)

\* sum, as IncrDecrGenerator chooses it for dir
Sum(dir, a, b) == IF dir = "DirDecr" THEN a - b ELSE a + b

\* Database.ReadInt: the stored string as an integer
DatabaseReadInt(db, key) ==
    IF key \notin DOMAIN db.container THEN [n |-> 0, err |-> "KeyDoesNotExist"]
    ELSE LET a == Atoi(db.container[key])
         IN  IF a.ok THEN [n |-> a.n, err |-> ""] ELSE [n |-> 0, err |-> "NotAnInteger"]

\* the handler as it would be if it replied the type error of a stored value
\* that is not an integer and went on to Write instead of returning
IncrDecrValueNoReturn(db, dir, by, args) ==
    LET r == DatabaseReadInt(db, args[1])
        a == IF by THEN Atoi(args[2]) ELSE [n |-> 1, ok |-> TRUE]
        typeErr == [out |-> <<ValueIsNotIntReply>>, write |-> FALSE,
                    absent |-> r.err = "KeyDoesNotExist", val |-> r.n, v |-> 0]
    IN  IF r.err = "KeyDoesNotExist"
        THEN IF ~a.ok THEN typeErr
             ELSE [out |-> <<>>, write |-> TRUE, absent |-> TRUE, val |-> r.n, v |-> a.n]
        ELSE IF r.err # "" /\ ~a.ok THEN typeErr
        ELSE IF r.err # ""
        THEN [out |-> <<ValueIsNotIntReply>>, write |-> TRUE, absent |-> FALSE,
              val |-> r.n, v |-> Sum(dir, r.n, a.n)]
        ELSE IF ~a.ok THEN typeErr
        ELSE [out |-> <<>>, write |-> TRUE, absent |-> FALSE, val |-> r.n,
              v |-> Sum(dir, r.n, a.n)]

\* the handler from ReadInt to the value it is about to write (lines 485-519):
\* the replies written (out), whether it goes on to Write (write), and v
IncrDecrValue(db, dir, by, args) ==
    LET r == DatabaseReadInt(db, args[1])
        a == IF by THEN Atoi(args[2]) ELSE [n |-> 1, ok |-> TRUE]
        typeErr == [out |-> <<ValueIsNotIntReply>>, write |-> FALSE,
                    absent |-> r.err = "KeyDoesNotExist", val |-> r.n, v |-> 0]
    IN  IF r.err = "KeyDoesNotExist"
        THEN IF ~a.ok THEN typeErr
             ELSE [out |-> <<>>, write |-> TRUE, absent |-> TRUE, val |-> r.n, v |-> a.n]
        ELSE IF r.err # "" THEN typeErr
        ELSE IF ~a.ok THEN typeErr
        ELSE [out |-> <<>>, write |-> TRUE, absent |-> FALSE, val |-> r.n,
              v |-> Sum(dir, r.n, a.n)]

CommandName(dir, by) ==
    IF dir = "DirDecr" THEN (IF by THEN "decrby" ELSE "decr")
    ELSE (IF by THEN "incrby" ELSE "incr")

\* the handler up to the point where it has the value to write
IncrDecr(c, dir, by, args) ==
    /\ Begin(c)
    /\ overlap' = [overlap EXCEPT ![c] = FALSE]
    /\ IF Len(args) # (IF by THEN 2 ELSE 1)
       THEN /\ reply' = [reply EXCEPT ![c] = <<WrongNumArgsReply(CommandName(dir, by))>>]
            /\ local' = [local EXCEPT ![c] = NoLocal]
            /\ UNCHANGED <<selectedDB, pc, crashed>>
       ELSE LET g == GetDB(databases, selectedDB, c)
                p == IncrDecrValue(databases[g.d.idx], dir, by, args)
                l == [NoLocal EXCEPT !.name = CommandName(dir, by), !.key = args[1],
                                     !.dir = dir, !.by = by,
                                     !.arg = IF by THEN args[2] ELSE <<>>]
            IN  /\ selectedDB' = g.v
                /\ IF g.d.nil
                   THEN /\ crashed' = TRUE
                        /\ reply' = [reply EXCEPT ![c] = <<>>]
                        /\ local' = [local EXCEPT ![c] = l]
                        /\ UNCHANGED pc
                   ELSE /\ p.v \in (0 - MaxInt)..MaxInt
                        /\ reply' = [reply EXCEPT ![c] = p.out]
                        /\ pc' = [pc EXCEPT ![c] = IF p.write THEN "incr_write" ELSE "read"]
                        /\ local' = [local EXCEPT ![c] =
                                        [l EXCEPT !.absent = p.absent, !.val = p.val, !.v = p.v]]
                        /\ UNCHANGED crashed
    /\ UNCHANGED <<databases, tasks, before>>

\* selectedDB.Write(conn, key, fmt.Sprint(v)); intRESP(conn, v)
IncrDecrWrite(c) ==
    /\ ~crashed
    /\ pc[c] = "incr_write"
    /\ LET g == GetDB(databases, selectedDB, c)
       IN  /\ selectedDB' = g.v
           /\ crashed' = g.d.nil
           /\ IF g.d.nil
              THEN UNCHANGED <<databases, reply>>
              ELSE /\ Len(databases[g.d.idx].keys) < MaxKeys
                   /\ databases' = [databases EXCEPT ![g.d.idx] =
                                       DatabaseWrite(@, local[c].key, Sprint(local[c].v))]
                   /\ reply' = [reply EXCEPT ![c] = Append(@, IntReply(local[c].v))]
    /\ pc' = [pc EXCEPT ![c] = "read"]
    /\ UNCHANGED <<local, tasks, budget, before, overlap>>

---------------------------------------------------------------------------
(* Requests: handleConnection hands each line to handleURP (array framing)  *)
(* or to handleInlineCommand; both end in handleCommand, which looks the    *)
(* command up in commandMap. A request is the sequence of its fields.       *)

\* handleCommand: the handler commandMap holds for command, or none
Dispatch(c, command, args) ==
    CASE command = <<"d", "b", "s", "i", "z", "e">> -> DBSize(c, args)
      [] command = <<"d", "e", "c", "r">> -> IncrDecr(c, "DirDecr", FALSE, args)
      [] command = <<"d", "e", "c", "r", "b", "y">> -> IncrDecr(c, "DirDecr", TRUE, args)
      [] command = <<"d", "e", "l">> -> Del(c, args)
      [] command = <<"e", "c", "h", "o">> -> Echo(c, args)
      [] command = <<"e", "x", "i", "s", "t", "s">> -> Exists(c, args)
      [] command = <<"f", "l", "u", "s", "h", "a", "l", "l">> -> FlushAll(c, args)
      [] command = <<"f", "l", "u", "s", "h", "d", "b">> -> FlushDB(c, args)
      [] command = <<"g", "e", "t">> -> Get(c, args)
      [] command = <<"i", "n", "c", "r">> -> IncrDecr(c, "DirIncr", FALSE, args)
      [] command = <<"i", "n", "c", "r", "b", "y">> -> IncrDecr(c, "DirIncr", TRUE, args)
      [] command = <<"m", "o", "v", "e">> -> Move(c, args)
      [] command = <<"p", "i", "n", "g">> -> Ping(c, args)
      [] command = <<"q", "u", "i", "t">> -> Quit(c, args)
      [] command = <<"r", "a", "n", "d", "o", "m", "k", "e", "y">> -> RandomKey(c, args)
      [] command = <<"s", "e", "l", "e", "c", "t">> -> Select(c, args)
      [] command = <<"s", "e", "t">> -> Set(c, args)
      [] OTHER -> NoHandler(c)

\* handleURP, once it has read the fields of the array: the command is
\* args[0] as sent; an array of no field makes args[0] panic
handleURP(c, fields) ==
    IF fields = <<>>
    THEN /\ Begin(c)
         /\ crashed' = TRUE
         /\ reply' = [reply EXCEPT ![c] = <<>>]
         /\ local' = [local EXCEPT ![c] = NoLocal]
         /\ overlap' = [overlap EXCEPT ![c] = FALSE]
         /\ UNCHANGED <<databases, selectedDB, pc, tasks, before>>
    ELSE Dispatch(c, Head(fields), Tail(fields))

\* handleURP from the line it is given: count is strings.TrimSpace(msg[1:]),
\* stream the fields the client sends after that line. Atoi fails: it
\* returns (line 251). The stream ends before count fields are read:
\* ReadString fails, it returns (lines 258, 263), and the client sends no
\* more. Otherwise it has read count fields, none when count <= 0.
handleURPLine(c, count, stream) ==
    LET arrayLen == Atoi(count)
    IN  IF ~arrayLen.ok \/ arrayLen.n > Len(stream)
        THEN /\ ~crashed
             /\ pc[c] = "read"
             /\ budget[c] # 0
             /\ budget' = [budget EXCEPT ![c] = IF ~arrayLen.ok THEN (IF @ > 0 THEN @ - 1 ELSE @) ELSE 0]
             /\ reply' = [reply EXCEPT ![c] = <<>>]
             /\ local' = [local EXCEPT ![c] = NoLocal]
             /\ overlap' = [overlap EXCEPT ![c] = FALSE]
             /\ UNCHANGED <<databases, selectedDB, pc, tasks, crashed, before>>
        ELSE handleURP(c, SubSeq(stream, 1, arrayLen.n))

\* handleInlineCommand: the command is the first field in lower case
handleInlineCommand(c, fields) == Dispatch(c, ToLower(Head(fields)), Tail(fields))

---------------------------------------------------------------------------
(* The server after main has called initDB and accepted the connections *)

InitServer(conns) ==
    /\ pc = [c \in conns |-> "read"]
    /\ local = [c \in conns |-> NoLocal]
    /\ reply = [c \in conns |-> <<>>]
    /\ tasks = EmptyBag
    /\ crashed = FALSE
    /\ before = databases
    /\ overlap = [c \in conns |-> FALSE]

KeyA == <<"a">>
KeyB == <<"b">>
Keys == {KeyA, KeyB}
\* the indexes of the registry and a string that is none of them
Indexes == DOMAIN databases \cup {<<"x">>}

SetCmd == \E c \in Conns, k \in Keys, v \in {<<>>, <<"1">>} : Set(c, <<k, v>>)
GetCmd == \E c \in Conns, k \in Keys : Get(c, <<k>>)
ExistsCmd == \E c \in Conns, k1 \in Keys, k2 \in Keys : Exists(c, <<k1>>) \/ Exists(c, <<k1, k2>>)
DelCmd == \E c \in Conns, k1 \in Keys, k2 \in Keys : Del(c, <<k1>>) \/ Del(c, <<k1, k2>>)
SelectCmd == \E c \in Conns, idx \in Indexes : Select(c, <<idx>>)
FlushDBCmd == \E c \in Conns : FlushDB(c, <<>>)
RandomKeyCmd == \E c \in Conns : RandomKey(c, <<>>)
MoveCmd == \E c \in Conns, idx \in Indexes : Move(c, <<KeyA, idx>>) \/ Move(c, <<KeyA>>)
MoveDstStep == \E c \in Conns : MoveDst(c)

(* Spec: one client sends any number of commands to a server just started *)
Init ==
    /\ databases = initDB(DBNum)
    /\ selectedDB = <<>>
    /\ InitServer({"c1"})
    /\ budget = [c \in {"c1"} |-> -1]

Next ==
    \/ SetCmd
    \/ GetCmd
    \/ ExistsCmd
    \/ DelCmd
    \/ SelectCmd
    \/ FlushDBCmd
    \/ RandomKeyCmd

Spec == Init /\ [][Next]_vars

(* SpecMoveSeq: one client sets, reads and moves key a on a server just started *)
SetACmd == \E c \in Conns : Set(c, <<KeyA, <<"1">>>>)
GetACmd == \E c \in Conns : Get(c, <<KeyA>>)

NextMoveSeq ==
    \/ SetACmd
    \/ GetACmd
    \/ SelectCmd
    \/ MoveCmd
    \/ MoveDstStep
    \/ MoveWrite
    \/ MoveDelete

SpecMoveSeq == Init /\ [][NextMoveSeq]_vars

(* SpecMove: two clients send MaxCmds MOVEs of key a each. The server starts  *)
(* as SELECT and SET leave it: every client has selected an engine, and an *)
(* engine holds a, with a value of its own, or nothing.                    *)
ValueAt(idx) == <<"v">> \o idx

InitMove ==
    /\ \E holds \in SUBSET DOMAIN initDB(DBNum + 1) :
          databases = [idx \in DOMAIN initDB(DBNum + 1) |->
                          IF idx \in holds
                          THEN DatabaseWrite(NewDatabase, KeyA, ValueAt(idx))
                          ELSE NewDatabase]
    /\ \E sel \in [{"c1", "c2"} -> DOMAIN initDB(DBNum + 1)] :
          selectedDB = [c \in {"c1", "c2"} |-> Ptr(sel[c])]
    /\ InitServer({"c1", "c2"})
    /\ budget = [c \in {"c1", "c2"} |-> MaxCmds]

NextMove ==
    \/ MoveCmd
    \/ MoveDstStep
    \/ MoveWrite
    \/ MoveDelete

SpecMove == InitMove /\ [][NextMove]_vars

(* SpecIncr: two clients on engine "0", with one key. Each has sent a first  *)
(* command already, so GetDB finds its entry in the table and writes nothing. *)
(* DEL of the one key (Read, then Delete) is taken in one step: no formula    *)
(* checked under this specification reads the reply of DEL.                   *)
IncrValues == {<<"a", "b", "c">>, <<"1">>}
IncrArgs == {<<"1">>, <<"-", "1">>, <<"x">>}

SetIncrCmd == \E c \in Conns, v \in IncrValues : Set(c, <<KeyA, v>>)
DelIncrCmd == \E c \in Conns : Del(c, <<KeyA>>)
IncrCmd == \E c \in Conns : IncrDecr(c, "DirIncr", FALSE, <<KeyA>>)
DecrCmd == \E c \in Conns : IncrDecr(c, "DirDecr", FALSE, <<KeyA>>)
IncrByCmd == \E c \in Conns, a \in IncrArgs : IncrDecr(c, "DirIncr", TRUE, <<KeyA, a>>)
DecrByCmd == \E c \in Conns, a \in IncrArgs : IncrDecr(c, "DirDecr", TRUE, <<KeyA, a>>)
IncrDecrWriteStep == \E c \in Conns : IncrDecrWrite(c)

InitIncr ==
    /\ databases = initDB(0)
    /\ selectedDB = [c \in {"c1", "c2"} |-> Ptr(<<"0">>)]
    /\ InitServer({"c1", "c2"})
    /\ budget = [c \in {"c1", "c2"} |-> -1]

NextIncr ==
    \/ SetIncrCmd
    \/ DelIncrCmd
    \/ IncrCmd
    \/ DecrCmd
    \/ IncrByCmd
    \/ DecrByCmd
    \/ IncrDecrWriteStep

SpecIncr == InitIncr /\ [][NextIncr]_vars

(* SpecIso: one client selects engines and sets, reads, deletes, increments *)
(* and flushes key a on a server just started                               *)
NextIso ==
    \/ SelectCmd
    \/ SetACmd
    \/ GetACmd
    \/ DelIncrCmd
    \/ FlushDBCmd
    \/ IncrCmd
    \/ DecrCmd
    \/ IncrByCmd
    \/ DecrByCmd
    \/ IncrDecrWriteStep

SpecIso == Init /\ [][NextIso]_vars

(* SpecSession: two TCP clients send requests in both framings, with the    *)
(* command in lower or upper case, quit and go away. SpecUnix: the same with *)
(* two clients of a unix socket.                                             *)
LowerRequests ==
    {<<<<"s", "e", "t">>, KeyA, <<"1">>>>, <<<<"g", "e", "t">>, KeyA>>, <<<<"q", "u", "i", "t">>>>,
     <<<<"f", "o", "o">>>>}
    \cup {<<<<"s", "e", "l", "e", "c", "t">>, idx>> : idx \in Indexes}
UpperRequests ==
    {<<<<"S", "E", "T">>, KeyA, <<"1">>>>, <<<<"G", "e", "t">>, KeyA>>, <<<<"Q", "U", "I", "T">>>>}
Requests == LowerRequests \cup UpperRequests

URPCmd == \E c \in Conns, fields \in Requests \cup {<<>>} : handleURP(c, fields)
InlineCmd == \E c \in Conns, fields \in Requests : handleInlineCommand(c, fields)
DisconnectStep == \E c \in Conns : Disconnect(c)

InitSession ==
    /\ databases = initDB(DBNum)
    /\ selectedDB = <<>>
    /\ InitServer({"c1", "c2"})
    /\ budget = [c \in {"c1", "c2"} |-> -1]

InitUnix ==
    /\ databases = initDB(DBNum)
    /\ selectedDB = <<>>
    /\ InitServer(UnixConns)
    /\ budget = [c \in UnixConns |-> -1]

NextSession ==
    \/ URPCmd
    \/ InlineCmd
    \/ DisconnectStep

SpecSession == InitSession /\ [][NextSession]_vars

SpecUnix == InitUnix /\ [][NextSession]_vars

(* SpecEngine: Write and Delete called on engine "0", any number of times, *)
(* from the empty engine. local records the last call.                     *)
EngineWrite ==
    \E k \in Keys, v \in {<<>>, <<"1">>} :
        /\ Len(databases[<<"0">>].keys) < MaxOrder
        /\ databases' = [databases EXCEPT ![<<"0">>] = DatabaseWrite(@, k, v)]
        /\ local' = [c \in Conns |-> [NoLocal EXCEPT !.name = "Write", !.key = k, !.value = v]]
        /\ UNCHANGED <<selectedDB, pc, reply, tasks, crashed, budget, before, overlap>>

EngineDelete ==
    \E k \in Keys :
        /\ databases' = [databases EXCEPT ![<<"0">>] = DatabaseDelete(@, k)]
        /\ local' = [c \in Conns |-> [NoLocal EXCEPT !.name = "Delete", !.key = k]]
        /\ UNCHANGED <<selectedDB, pc, reply, tasks, crashed, budget, before, overlap>>

InitEngine ==
    /\ databases = initDB(0)
    /\ selectedDB = <<>>
    /\ InitServer({"c1"})
    /\ budget = [c \in {"c1"} |-> -1]

NextEngine ==
    \/ EngineWrite
    \/ EngineDelete

SpecEngine == InitEngine /\ [][NextEngine]_vars

(* SpecFlushAll: one client selects engines, reads key a and sends FLUSHALL *)
(* and DBSIZE. The server starts as SETs leave it: every engine holds a,   *)
(* and maybe b. Nothing writes, so the engines differ from their first     *)
(* contents exactly when a FLUSHALL has run.                                *)
FlushAllCmd == \E c \in Conns : FlushAll(c, <<>>)
DBSizeCmd == \E c \in Conns : DBSize(c, <<>>)

InitFlushAll ==
    /\ \E withB \in SUBSET DOMAIN initDB(DBNum), val \in [DOMAIN initDB(DBNum) -> {<<>>, <<"1">>}] :
          databases = [idx \in DOMAIN initDB(DBNum) |->
                          IF idx \in withB
                          THEN DatabaseWrite(DatabaseWrite(NewDatabase, KeyA, val[idx]), KeyB, val[idx])
                          ELSE DatabaseWrite(NewDatabase, KeyA, val[idx])]
    /\ selectedDB = <<>>
    /\ InitServer({"c1"})
    /\ budget = [c \in {"c1"} |-> -1]

NextFlushAll ==
    \/ SelectCmd
    \/ GetACmd
    \/ FlushAllCmd
    \/ DBSizeCmd

SpecFlushAll == InitFlushAll /\ [][NextFlushAll]_vars

(* SpecFlushDB: one client selects engines, sets and reads key a and sends *)
(* FLUSHDB, on a server whose engines all hold keys                         *)
NextFlushDB ==
    \/ SelectCmd
    \/ SetACmd
    \/ GetACmd
    \/ FlushDBCmd

SpecFlushDB == InitFlushAll /\ [][NextFlushDB]_vars

(* SpecLock: two TCP clients send GET a, SELECT and QUIT; every call of  *)
(* RLock, Lock and every access to the session table is a step of its own. *)
GetDBRLockCmd == \E c \in Conns : GetDBRLock(c, <<KeyA>>)
GetDBLookupStep == \E c \in Conns : GetDBLookup(c)
GetDBBindStep == \E c \in Conns : GetDBBind(c)
SelectLockCmd == \E c \in Conns, idx \in Indexes : SelectLock(c, <<idx>>)
QuitLockCmd == \E c \in Conns : QuitLock(c)
LockAcquireStep == \E c \in Conns : LockAcquire(c)
SelectStoreStep == \E c \in Conns : SelectStore(c)
QuitDeleteStep == \E c \in Conns : QuitDelete(c)

NextLock ==
    \/ GetDBRLockCmd
    \/ GetDBLookupStep
    \/ GetDBBindStep
    \/ SelectLockCmd
    \/ QuitLockCmd
    \/ LockAcquireStep
    \/ SelectStoreStep
    \/ QuitDeleteStep

SpecLock == InitSession /\ [][NextLock]_vars

(* SpecDecode: one client sends array-framed requests whose count line is  *)
(* well formed or not, and whose fields are all there or cut short.        *)
Counts == {<<>>, <<"x">>, <<"-", "1">>, <<"0">>, <<"1">>, <<"2">>, <<"3">>}
Streams == {<<>>} \cup LowerRequests

URPLineCmd == \E c \in Conns, count \in Counts, stream \in Streams : handleURPLine(c, count, stream)

NextDecode ==
    \/ URPLineCmd
    \/ DisconnectStep

SpecDecode == Init /\ [][NextDecode]_vars

(* SpecArity: one client selects engines, sets keys and sends every command *)
(* of commandMap with numbers of arguments its contract excludes.            *)
\* the commands of commandMap, with the numbers of arguments each one takes
Commands ==
    {[name |-> "dbsize",    command |-> <<"d", "b", "s", "i", "z", "e">>,                arity |-> {0}],
     [name |-> "decr",      command |-> <<"d", "e", "c", "r">>,                          arity |-> {1}],
     [name |-> "decrby",    command |-> <<"d", "e", "c", "r", "b", "y">>,                arity |-> {2}],
     [name |-> "del",       command |-> <<"d", "e", "l">>,                               arity |-> {1, 2, 3}],
     [name |-> "echo",      command |-> <<"e", "c", "h", "o">>,                          arity |-> {1}],
     [name |-> "exists",    command |-> <<"e", "x", "i", "s", "t", "s">>,                arity |-> {1, 2, 3}],
     [name |-> "flushall",  command |-> <<"f", "l", "u", "s", "h", "a", "l", "l">>,      arity |-> {0}],
     [name |-> "flushdb",   command |-> <<"f", "l", "u", "s", "h", "d", "b">>,           arity |-> {0}],
     [name |-> "get",       command |-> <<"g", "e", "t">>,                               arity |-> {1}],
     [name |-> "incr",      command |-> <<"i", "n", "c", "r">>,                          arity |-> {1}],
     [name |-> "incrby",    command |-> <<"i", "n", "c", "r", "b", "y">>,                arity |-> {2}],
     [name |-> "move",      command |-> <<"m", "o", "v", "e">>,                          arity |-> {2}],
     [name |-> "ping",      command |-> <<"p", "i", "n", "g">>,                          arity |-> {0, 1}],
     [name |-> "quit",      command |-> <<"q", "u", "i", "t">>,                          arity |-> {0}],
     [name |-> "randomkey", command |-> <<"r", "a", "n", "d", "o", "m", "k", "e", "y">>, arity |-> {0}],
     [name |-> "select",    command |-> <<"s", "e", "l", "e", "c", "t">>,                arity |-> {1}],
     [name |-> "set",       command |-> <<"s", "e", "t">>,                               arity |-> {2}]}

\* argument lists of 0 to 3 arguments
ArgLists == {<<>>, <<KeyA>>, <<KeyA, <<"1">>>>, <<KeyA, <<"1">>, <<"1">>>>}

WrongArityCmd ==
    \E c \in Conns, cmd \in Commands, args \in ArgLists :
        /\ Len(args) \notin cmd.arity
        /\ Dispatch(c, cmd.command, args)

NextArity ==
    \/ WrongArityCmd
    \/ SetACmd
    \/ SelectCmd

SpecArity == Init /\ [][NextArity]_vars

(* SpecMoveLive: from the states SpecMove starts in, client c1 sends MaxCmds *)
(* MOVEs of key a while client c2 reads key b. The Go scheduler runs every   *)
(* goroutine that can run: the two goroutines of a Move are not held back    *)
(* for ever.                                                                 *)
MoveOneCmd == \E c \in {"c1"}, idx \in Indexes : Move(c, <<KeyA, idx>>)
GetOtherCmd == \E c \in Conns \ {"c1"} : Get(c, <<KeyB>>)

NextMoveLive ==
    \/ MoveOneCmd
    \/ GetOtherCmd
    \/ MoveDstStep
    \/ MoveWrite
    \/ MoveDelete

SpecMoveLive ==
    InitMove /\ [][NextMoveLive]_vars /\ WF_vars(MoveWrite) /\ WF_vars(MoveDelete)

(* SpecMoveSelect: one client that has selected engine MoveSource sends   *)
(* MOVEs of key a and then, once a MOVE has replied, SELECT or QUIT. The     *)
(* engines start as in SpecMove.                                             *)
MoveSource == <<"1">>

InitMoveSelect ==
    /\ \E holds \in SUBSET DOMAIN initDB(DBNum + 1) :
          databases = [idx \in DOMAIN initDB(DBNum + 1) |->
                          IF idx \in holds
                          THEN DatabaseWrite(NewDatabase, KeyA, ValueAt(idx))
                          ELSE NewDatabase]
    /\ selectedDB = [c \in {"c1"} |-> Ptr(MoveSource)]
    /\ InitServer({"c1"})
    /\ budget = [c \in {"c1"} |-> MaxCmds + 1]

MoveFromSourceCmd ==
    \E c \in Conns, idx \in Indexes :
        /\ local[c].name \in {"", "move"}
        /\ Move(c, <<KeyA, idx>>)
SelectAfterMoveCmd ==
    \E c \in Conns, idx \in Indexes :
        /\ local[c].name = "move"
        /\ Select(c, <<idx>>)
QuitAfterMoveCmd ==
    \E c \in Conns :
        /\ local[c].name = "move"
        /\ Quit(c, <<>>)

NextMoveSelect ==
    \/ MoveFromSourceCmd
    \/ SelectAfterMoveCmd
    \/ QuitAfterMoveCmd
    \/ MoveDstStep
    \/ MoveWrite
    \/ MoveDelete

SpecMoveSelect == InitMoveSelect /\ [][NextMoveSelect]_vars

(* SpecIncrRace: two clients on engine "0" send one INCR each, of key a or *)
(* of key b. The engine starts empty or with one of the keys at an integer. *)
InitIncrRace ==
    /\ \/ databases = initDB(0)
       \/ \E k \in Keys, x \in (0 - MaxInt)..MaxInt :
             databases = [idx \in DOMAIN initDB(0) |-> DatabaseWrite(NewDatabase, k, Sprint(x))]
    /\ selectedDB = [c \in {"c1", "c2"} |-> Ptr(<<"0">>)]
    /\ InitServer({"c1", "c2"})
    /\ budget = [c \in {"c1", "c2"} |-> 1]

IncrOnceCmd == \E c \in Conns, k \in Keys : IncrDecr(c, "DirIncr", FALSE, <<k>>)

NextIncrRace ==
    \/ IncrOnceCmd
    \/ IncrDecrWriteStep

SpecIncrRace == InitIncrRace /\ [][NextIncrRace]_vars

---------------------------------------------------------------------------
(* The claims *)

\* the engine connection c has selected, as GetDB resolves it
SelectedOf(c) == GetDB(databases, selectedDB, c).d
Holds(db, key) == key \in DOMAIN db.container
Range(seq) == {seq[i] : i \in 1..Len(seq)}

\* C1: on a non-empty engine, whatever Writes, Deletes and Flushes came before,
\* every key RandomKey can return is present in the engine's entries.
C1_RandomKeyReturnsPresentKey ==
    \A idx \in DOMAIN databases :
        DOMAIN databases[idx].container # {} =>
            DatabaseRandomKey(databases[idx]) \subseteq DOMAIN databases[idx].container

\* C2: RANDOMKEY on an empty engine replies null-bulk, the process does not
\* crash and the connection goes on reading commands.
C2_RandomKeyOnEmptyEngine ==
    [][\A c \in Conns :
          (/\ RandomKey(c, <<>>)
           /\ ~SelectedOf(c).nil
           /\ DOMAIN databases[SelectedOf(c).idx].container = {})
          => (reply'[c] = <<NullBulkReply>> /\ ~crashed' /\ pc'[c] = "read")]_vars

\* C3: SELECT of an index the registry does not hold replies with an error and
\* leaves the connection bound to the engine it had, which is in the registry.
C3_SelectUnknownIndex ==
    [][\A c \in Conns, idx \in Indexes \ DOMAIN databases :
          Select(c, <<idx>>)
          => (/\ Len(reply'[c]) = 1
              /\ reply'[c][1].kind = "error"
              /\ GetDB(databases', selectedDB', c).d = SelectedOf(c)
              /\ ~GetDB(databases', selectedDB', c).d.nil)]_vars

\* the values stored under key across the engines, each with how many engines hold it
ValuesUnder(dbs, key) ==
    LET holders == {idx \in DOMAIN dbs : Holds(dbs[idx], key)}
    IN  [v \in {dbs[idx].container[key] : idx \in holders} |->
            Cardinality({idx \in holders : dbs[idx].container[key] = v})]

\* every client has sent its commands, every handler has returned and every
\* goroutine of Move has run
Quiet == /\ \A c \in Conns : budget[c] = 0 /\ pc[c] = "read"
         /\ tasks = EmptyBag
         /\ ~crashed

\* C4: when two connections have each run MOVE a d with the same d, once both
\* and their goroutines have finished the values stored under a across the
\* engines are those stored before, each as many times.
C4_ConcurrentMoveKeepsValues ==
    (/\ Quiet
     /\ \A c \in Conns : local[c].name = "move" /\ local[c].key = KeyA
     /\ \A c1 \in Conns, c2 \in Conns : local[c1].dbIdx = local[c2].dbIdx)
    => ValuesUnder(databases, KeyA) = ValuesUnder(before, KeyA)

\* C5: when two connections run MOVE a d at the same time and d did not hold a
\* before, at most one of them is replied 1.
C5_MoveMutualExclusion ==
    \A c1 \in Conns, c2 \in Conns :
        (/\ c1 # c2
         /\ local[c1].name = "move" /\ local[c2].name = "move"
         /\ local[c1].key = local[c2].key
         /\ local[c1].dbIdx = local[c2].dbIdx
         /\ overlap[c1] /\ overlap[c2]
         /\ local[c1].dbIdx \in DOMAIN before
         /\ ~Holds(before[local[c1].dbIdx], local[c1].key))
        => ~(reply[c1] = <<IntReply(1)>> /\ reply[c2] = <<IntReply(1)>>)

\* C6: when a MOVE has replied 1 and its connection is ready for the next
\* command, the source engine no longer holds the key and the destination
\* holds it with the value moved.
C6_MoveDoneBeforeNextCommand ==
    \A c \in Conns :
        (/\ ~crashed
         /\ pc[c] = "read" /\ budget[c] # 0
         /\ local[c].name = "move"
         /\ reply[c] = <<IntReply(1)>>)
        => (/\ ~Holds(databases[SelectedOf(c).idx], local[c].key)
            /\ Holds(databases[local[c].dbIdx], local[c].key)
            /\ databases[local[c].dbIdx].container[local[c].key] = local[c].value)

MoveArgs == {<<KeyA, idx>> : idx \in Indexes} \cup {<<KeyA>>}
\* a step of the Move handler of connection c
MoveStep(c) == (\E args \in MoveArgs : Move(c, args)) \/ MoveDst(c)

\* C7: a step of Move that does not reply 1 (the key is absent from the
\* source, the index is unknown, the destination holds the key) changes no
\* engine and starts no goroutine.
C7_MoveWithoutReply1MutatesNothing ==
    [][\A c \in Conns :
          (MoveStep(c) /\ IntReply(1) \notin Range(reply'[c]))
          => (databases' = databases /\ tasks' = tasks)]_vars

\* a MOVE toward the engine its connection has selected, which holds the
\* key, has replied 0 and every engine is as it was
C7_Witness ==
    \E c \in Conns :
        /\ pc[c] = "read" /\ local[c].name = "move"
        /\ reply[c] = <<IntReply(0)>>
        /\ local[c].dbIdx = SelectedOf(c).idx
        /\ Holds(databases[local[c].dbIdx], local[c].key)
        /\ databases = before

IncrDecrArgs == {<<KeyA>>} \cup {<<KeyA, a>> : a \in IncrArgs}
\* a step of the INCR, DECR, INCRBY or DECRBY handler of connection c
IncrDecrStep(c) ==
    \/ \E dir \in {"DirIncr", "DirDecr"}, by \in BOOLEAN, args \in IncrDecrArgs :
          IncrDecr(c, dir, by, args)
    \/ IncrDecrWrite(c)

\* C8: the reply of INCR, DECR, INCRBY and DECRBY and the decimal string they
\* store are current + delta (INCR, INCRBY) or current - delta (DECR, DECRBY),
\* where an absent key has current value 0 and delta is 1 without BY.
C8_IncrDecrResult ==
    [][\A c \in Conns :
          IncrDecrWrite(c) =>
            LET l == local[c]
                current == IF l.absent THEN 0 ELSE l.val
                delta == IF l.by THEN Atoi(l.arg).n ELSE 1
                result == IF l.dir = "DirDecr" THEN current - delta ELSE current + delta
            IN  /\ reply'[c] = <<IntReply(result)>>
                /\ databases'[SelectedOf(c).idx].container[l.key] = Sprint(result)]_vars

\* C9: a step of INCR, DECR, INCRBY or DECRBY after which the command has
\* replied that the value is not an integer changes no engine, ends the
\* command with that one reply and leaves the connection reading commands.
C9_TypeErrorMutatesNothing ==
    [][\A c \in Conns :
          (IncrDecrStep(c) /\ ValueIsNotIntReply \in Range(reply'[c]))
          => (/\ databases' = databases
              /\ reply'[c] = <<ValueIsNotIntReply>>
              /\ pc'[c] = "read"
              /\ ~crashed')]_vars

\* a command of the family has replied the type error on a key holding "abc"
C9_Witness ==
    \E c \in Conns :
        /\ pc[c] = "read" /\ ~crashed
        /\ local[c].name \in {"incr", "decr", "incrby", "decrby"}
        /\ reply[c] = <<ValueIsNotIntReply>>
        /\ Holds(databases[<<"0">>], KeyA)
        /\ databases[<<"0">>].container[KeyA] = <<"a", "b", "c">>

ExistsArgs == {<<k>> : k \in Keys} \cup {<<k1, k2>> : k1 \in Keys, k2 \in Keys}

\* C10: EXISTS replies the number of argument positions whose key is present
\* in the engine of the connection, whatever value the key holds.
C10_ExistsCountsPresentKeys ==
    [][\A c \in Conns, args \in ExistsArgs :
          (Exists(c, args) /\ ~SelectedOf(c).nil)
          => reply'[c] = <<IntReply(Cardinality({i \in 1..Len(args) :
                                Holds(databases[SelectedOf(c).idx], args[i])}))>>]_vars

DelArgs == {<<k>> : k \in Keys} \cup {<<k1, k2>> : k1 \in Keys, k2 \in Keys}

\* C11: DEL removes every argument key the engine of the connection holds,
\* whatever its value, replies the number of keys it removed (a repeated key
\* counts once), and afterwards the engine holds none of the argument keys.
C11_DelRemovesPresentKeys ==
    [][\A c \in Conns, args \in DelArgs :
          (Del(c, args) /\ ~SelectedOf(c).nil)
          => LET db == databases[SelectedOf(c).idx]
                 present == {k \in Range(args) : Holds(db, k)}
             IN  /\ reply'[c] = <<IntReply(Cardinality(present))>>
                 /\ \A k \in Range(args) : ~Holds(databases'[SelectedOf(c).idx], k)]_vars

\* a step of SET, DEL, FLUSHDB or of a command of the INCR family by connection c
IsoStep(c) ==
    \/ Set(c, <<KeyA, <<"1">>>>)
    \/ Del(c, <<KeyA>>)
    \/ FlushDB(c, <<>>)
    \/ IncrDecrStep(c)

\* C12: a step of SET, DEL, FLUSHDB or of the INCR family by a connection
\* bound to engine i leaves every other engine as it was, and GET replies
\* null-bulk when the engine of the connection does not hold the key.
C12_DatabasesIsolated ==
    [][\A c \in Conns :
          /\ (IsoStep(c) /\ ~SelectedOf(c).nil)
             => \A j \in DOMAIN databases \ {SelectedOf(c).idx} : databases'[j] = databases[j]
          /\ (Get(c, <<KeyA>>) /\ ~SelectedOf(c).nil
                /\ ~Holds(databases[SelectedOf(c).idx], KeyA))
             => reply'[c] = <<NullBulkReply>>]_vars

\* after SELECT 1 and SET a 1, then SELECT 0, GET a has replied null-bulk:
\* engine "1" holds a and engine "0" does not
C12_Witness ==
    \E c \in Conns :
        /\ local[c].name = "get" /\ reply[c] = <<NullBulkReply>>
        /\ SelectedOf(c) = Ptr(<<"0">>)
        /\ Holds(databases[<<"1">>], KeyA)
        /\ ~Holds(databases[<<"0">>], KeyA)

\* a SELECT or a QUIT of connection a
SelectOrQuit(a) == (\E idx \in Indexes : Select(a, <<idx>>)) \/ Quit(a, <<>>)

\* C13: a SELECT or a QUIT of one connection leaves the engine that the
\* commands of any other connection operate on as it was.
C13_NoCrossTalk ==
    [][\A a \in Conns, b \in Conns :
          (a # b /\ SelectOrQuit(a))
          => GetDB(databases', selectedDB', b).d = SelectedOf(b)]_vars

\* C14: a connection that has terminated, by QUIT or because its client went
\* away, has no entry in the session table.
C14_SessionRemovedAtExit ==
    \A c \in Conns :
        pc[c] \in {"closed", "exited"} => RemoteAddr(c) \notin DOMAIN selectedDB

\* the commands in Requests that commandMap has a handler for
KnownCommands ==
    {<<"s", "e", "t">>, <<"g", "e", "t">>, <<"q", "u", "i", "t">>, <<"s", "e", "l", "e", "c", "t">>}

\* C15: a request whose command has no handler is answered by dropping the
\* connection: nothing is written and the connection reads no further command.
C15_UnknownCommandDropsConnection ==
    [][\A c \in Conns, fields \in Requests :
          (ToLower(Head(fields)) \notin KnownCommands /\ handleInlineCommand(c, fields))
          => (reply'[c] = <<>> /\ pc'[c] # "read")]_vars

\* C16: a request in array framing does what the same request does in inline
\* framing, whatever the letter case of its command.
C16_CommandCaseInsensitive ==
    [][\A c \in Conns, fields \in Requests :
          handleURP(c, fields) => handleInlineCommand(c, fields)]_vars

\* C17: on every engine that Writes and Deletes can produce, Write(k, v)
\* followed by Read(k) gives (v, true), for every key k and value v.
C17_WriteThenRead ==
    \A idx \in DOMAIN databases, k \in Keys, v \in {<<>>, <<"1">>, <<"2">>} :
        DatabaseRead(DatabaseWrite(databases[idx], k, v), k) = [v |-> v, ok |-> TRUE]

\* a Write of a has just run on an engine that held a already: its order
\* holds a twice, and the engine holds a with the value "1", which
\* Write(a, "") and Write(a, "2") replace
C17_Witness ==
    \E c \in Conns :
        /\ local[c].name = "Write" /\ local[c].key = KeyA /\ local[c].value = <<"1">>
        /\ Cardinality({i \in 1..Len(databases[<<"0">>].keys) : databases[<<"0">>].keys[i] = KeyA}) >= 2
        /\ DatabaseRead(databases[<<"0">>], KeyA) = [v |-> <<"1">>, ok |-> TRUE]

\* C18: on every engine that Writes and Deletes can produce, Delete(k)
\* followed by Read(k) gives not-found, and a second Delete(k) leaves the
\* engine (container, keys, keyIndex) as the first left it.
C18_DeleteIdempotent ==
    \A idx \in DOMAIN databases, k \in Keys :
        LET once == DatabaseDelete(databases[idx], k)
        IN  /\ ~DatabaseRead(once, k).ok
            /\ DatabaseDelete(once, k) = once

\* C19: FLUSHDB leaves the engine of the connection empty and every other
\* engine as it was.
C19_FlushDBOnlySelected ==
    [][\A c \in Conns :
          (FlushDB(c, <<>>) /\ ~SelectedOf(c).nil)
          => /\ databases'[SelectedOf(c).idx] = NewDatabase
             /\ \A j \in DOMAIN databases \ {SelectedOf(c).idx} : databases'[j] = databases[j]
             /\ reply'[c] = <<OkReply>>]_vars

\* FLUSHDB has replied OK on engine "1", which held keys and is empty, and
\* engine "0" still holds what it held
C19_Witness ==
    \E c \in Conns :
        /\ local[c].name = "flushdb" /\ reply[c] = <<OkReply>>
        /\ SelectedOf(c) = Ptr(<<"1">>)
        /\ Holds(before[<<"1">>], KeyB)
        /\ databases[<<"1">>] = NewDatabase
        /\ databases[<<"0">>] = before[<<"0">>]
        /\ DOMAIN databases[<<"0">>].container = Keys

\* C20: once FLUSHALL has run and nothing has written since, a DBSIZE that
\* replies, on whichever engine, replies 0.
C20_FlushAllThenDBSize ==
    \A c \in Conns :
        (databases # before /\ local[c].name = "dbsize" /\ ~crashed)
        => reply[c] = <<IntReply(0)>>

\* FLUSHALL has run and DBSIZE has replied 0 on engine "1", which held keys
C20_Witness ==
    \E c \in Conns :
        /\ databases # before /\ Holds(before[<<"1">>], KeyB)
        /\ local[c].name = "dbsize" /\ reply[c] = <<IntReply(0)>>
        /\ SelectedOf(c) = Ptr(<<"1">>)

\* C21: in every engine that Writes and Deletes can produce, keys, container
\* and keyIndex have the same size, keys holds no key twice and no key that
\* container lacks, and for every key k of container keys[keyIndex[k]] = k.
C21_EngineInvariant ==
    \A idx \in DOMAIN databases :
        LET db == databases[idx]
        IN  /\ Len(db.keys) = Cardinality(DOMAIN db.container)
            /\ Cardinality(DOMAIN db.keyIndex) = Cardinality(DOMAIN db.container)
            /\ \A i, j \in 1..Len(db.keys) : db.keys[i] = db.keys[j] => i = j
            /\ \A i \in 1..Len(db.keys) : db.keys[i] \in DOMAIN db.container
            /\ \A k \in DOMAIN db.container :
                   /\ k \in DOMAIN db.keyIndex
                   /\ db.keyIndex[k] + 1 \in 1..Len(db.keys)
                   /\ db.keys[db.keyIndex[k] + 1] = k

\* c is about to write the session table: line 99 of GetDB, line 391 of
\* Select, line 563 of Quit
TableWriting(c) == pc[c] \in {"getdb_bind", "select_locked", "quit_locked"}
\* c is inside an access to the session table, read or write
TableAccessing(c) == RLockHeld(c) \/ LockHeld(c)

\* C22: while a connection is writing the session table (the bind of GetDB,
\* Select, Quit), no other connection is inside a read or a write of it.
C22_SessionTableSerialized ==
    \A a \in Conns, b \in Conns :
        a # b => ~(TableWriting(a) /\ TableAccessing(b))

\* the count line is malformed, the count is zero or negative, or the
\* stream ends before count fields
DecodeFails(count, stream) ==
    \/ ~Atoi(count).ok
    \/ Atoi(count).n <= 0
    \/ Atoi(count).n > Len(stream)

\* C23: a decode failure of an array-framed line dispatches no command
\* (nothing is replied, no engine and no session changes), crashes nothing
\* and leaves the connection reading.
C23_DecodeFailureAbortsLineOnly ==
    [][\A c \in Conns, count \in Counts, stream \in Streams :
          (handleURPLine(c, count, stream) /\ DecodeFails(count, stream))
          => /\ ~crashed'
             /\ pc'[c] = "read"
             /\ reply'[c] = <<>>
             /\ UNCHANGED <<databases, selectedDB>>]_vars

\* C24: a command of commandMap sent with a number of arguments outside its
\* contract gets exactly one reply, the error naming the command; no engine
\* and no session changes, nothing crashes and the connection goes on reading.
C24_ArityErrorOnce ==
    [][\A c \in Conns, cmd \in Commands, args \in ArgLists :
          (Len(args) \notin cmd.arity /\ Dispatch(c, cmd.command, args))
          => /\ reply'[c] = <<WrongNumArgsReply(cmd.name)>>
             /\ ~crashed'
             /\ pc'[c] = "read"
             /\ UNCHANGED <<databases, selectedDB>>]_vars

\* the last command of c was a MOVE to another engine than the one c has
\* selected, it replied 1, and the client of c sends no more
MoveRepliedOne(c) ==
    /\ local[c].name = "move" /\ pc[c] = "read"
    /\ reply[c] = <<IntReply(1)>>
    /\ SelectedOf(c) # Ptr(local[c].dbIdx)
    /\ budget[c] = 0

\* the destination of the MOVE of c holds the key with the value the MOVE
\* read, and the engine c has selected does not hold the key
MoveCompleted(c) ==
    /\ local[c].dbIdx \in DOMAIN databases
    /\ DatabaseRead(databases[local[c].dbIdx], local[c].key) = [v |-> local[c].value, ok |-> TRUE]
    /\ ~SelectedOf(c).nil
    /\ ~Holds(databases[SelectedOf(c).idx], local[c].key)

C26_MoveDeletesFromSourceOnly ==
    [][MoveDelete
          => /\ ~Holds(databases'[MoveSource], KeyA)
             /\ \A idx \in DOMAIN databases \ {MoveSource} : databases'[idx] = databases[idx]]_vars

\* c has sent its one INCR, of key k, and the reply has been written
IncrDone(c, k) ==
    /\ pc[c] = "read" /\ budget[c] = 0
    /\ local[c].name = "incr" /\ local[c].key = k
    /\ Len(reply[c]) = 1

\* the integer key k held when the run started, 0 if the engine did not hold it
StartValue(k) ==
    IF Holds(before[<<"0">>], k) THEN Atoi(before[<<"0">>].container[k]).n ELSE 0

\* C27: when every connection has executed its one INCR of the same key k,
\* the engine holds the start value plus the number of connections, and no
\* two connections got the same reply.
C27_IncrAtomic ==
    \A k \in Keys :
        (\A c \in Conns : IncrDone(c, k))
        => /\ DatabaseRead(databases[<<"0">>], k) =
                  [v |-> Sprint(StartValue(k) + Cardinality(Conns)), ok |-> TRUE]
           /\ \A c1 \in Conns, c2 \in Conns : c1 # c2 => reply[c1] # reply[c2]

====
